---- MODULE Spec2Model ----
(***************************************************************************)
(* State machine of the attack-simulation engine (hook useSimulation of    *)
(* src/src/hooks/useAttackMap.js) with its static registries.              *)
(*                                                                         *)
(* Every handler (startAttack, stopAttack, toggleProtocol, clearEvents,    *)
(* the timer callback of the auto-generation effect) is one atomic action: *)
(* JavaScript runs one callback at a time and React applies the queued     *)
(* state updaters of a handler, in order, before the next handler runs.    *)
(* The closure value `protocolEnabled` read by startAttack is the value    *)
(* committed by the latest render, i.e. the state variable.                *)
(*                                                                         *)
(* generateId() (16 random hex digits) is modelled by a counter: ids are   *)
(* fresh.  Date.now() is the variable `now`, in milliseconds.              *)
(*                                                                         *)
(* Beside the engine the module holds the map feed (hook useAttackMap of   *)
(* the same file), the distribution layer (SimulationContext, published by *)
(* Layout) and the browser's timer table with the two generation effects.  *)
(* Spec, LogSpec and MapSpec let a timer callback run at any time;         *)
(* TimerSpec schedules, fires and cancels the timeouts explicitly.         *)
(* `closures` holds the protocol flag each memoised callback and each      *)
(* effect captured at the render that created it.  OriginSpec draws one    *)
(* origin by roulette selection; ApiSpec is the mock REST API of           *)
(* src/api/index.js with its in-memory protocolStatus.                     *)
(***************************************************************************)
EXTENDS Integers, Sequences, FiniteSets

\* ------------------------------------------------------------------ bounds

\* Attacks created in one run (caps stats.totalAttacks).
MaxAttacks == 2

\* Requests served by the mock API in one run.
MaxRequests == 3

\* Ids handed out by generateId in one run (caps toggles as well).
MaxIds == 5

\* Ids handed out in a run that fills the event log past MAX_EVENTS.
MaxLogIds == 52

\* Attacks created in a run that fills the event log.
MaxLogAttacks == 1

\* Lines the map feed creates in one run (caps counters.total).
MaxMapLines == 22

\* Protocol toggles in a run of the map feed.
MaxMapToggles == 2

\* Renders of Layout in one run (caps the history `published`).
MaxRenders == 3

\* The clock of a run with explicit timers stops advancing here (ms).
MaxTimerClock == 5000

\* Ids handed out by generateId in a run with explicit timers.
MaxTimerIds == 3

\* Rolls of the origin draw are multiples of 1 / RollScale of a hundredth.
RollScale == 2

\* The clock stops advancing here (ms).
MaxClock == 60000

\* One step of the clock (ms).
TickStep == 60000

\* ------------------------------------------------------ static registries

STATUS == [SECURE |-> "secure", WARNING |-> "warning", COMPROMISED |-> "compromised"]

ATTACK_TYPES ==
  [BRUTE_FORCE |-> "brute_force", MITM |-> "man_in_the_middle",
   UNAUTHORIZED_ACCESS |-> "unauthorized_access", DOS |-> "denial_of_service",
   REPLAY |-> "replay_attack", FIRMWARE_EXPLOIT |-> "firmware_exploit"]

\* Mutant: a target id of the first definition that the device registry
\* does not hold.
attackDefinitions_UnknownTarget ==
  << [id |-> "brute_force", severity |-> "high",
      targetDevices |-> <<"camera-01", "lock-01", "hub-01">>],
     [id |-> "denial_of_service", severity |-> "medium",
      targetDevices |-> <<"router-01", "camera-01">>] >>

\* id, severity and target pool of each definition (the display fields
\* name, shortName, color, description are functions of id and are left out).
attackDefinitions ==
  << [id |-> ATTACK_TYPES.BRUTE_FORCE, severity |-> "high",
      targetDevices |-> <<"camera-01", "lock-01", "router-01">>],
     [id |-> ATTACK_TYPES.MITM, severity |-> "critical",
      targetDevices |-> <<"thermostat-01", "camera-01", "router-01">>],
     [id |-> ATTACK_TYPES.UNAUTHORIZED_ACCESS, severity |-> "high",
      targetDevices |-> <<"lock-01", "light-01", "thermostat-01">>],
     [id |-> ATTACK_TYPES.DOS, severity |-> "medium",
      targetDevices |-> <<"router-01", "camera-01">>],
     [id |-> ATTACK_TYPES.REPLAY, severity |-> "high",
      targetDevices |-> <<"lock-01", "light-01">>],
     [id |-> ATTACK_TYPES.FIRMWARE_EXPLOIT, severity |-> "critical",
      targetDevices |-> <<"motion-01", "camera-01", "thermostat-01">>] >>

\* The device registry, in its order (id and type of each record).
initialDevices ==
  << [id |-> "router-01", type |-> "router"],
     [id |-> "camera-01", type |-> "camera"],
     [id |-> "lock-01", type |-> "door_lock"],
     [id |-> "thermostat-01", type |-> "thermostat"],
     [id |-> "motion-01", type |-> "motion_sensor"],
     [id |-> "light-01", type |-> "smart_light"] >>

MAX_EVENTS == 50

\* Width of the rolling attacks-per-minute window (the literal 60_000).
WINDOW_MS == 60000

\* country and weight of each origin, the weight in hundredths (lat and lng
\* are functions of country and are left out).
attackOrigins ==
  << [country |-> "China", weight |-> 25],
     [country |-> "Russia", weight |-> 20],
     [country |-> "USA", weight |-> 10],
     [country |-> "Brazil", weight |-> 8],
     [country |-> "India", weight |-> 7],
     [country |-> "Iran", weight |-> 6],
     [country |-> "North Korea", weight |-> 5],
     [country |-> "Nigeria", weight |-> 4],
     [country |-> "Vietnam", weight |-> 4],
     [country |-> "Turkey", weight |-> 3],
     [country |-> "Germany", weight |-> 3],
     [country |-> "Romania", weight |-> 3],
     [country |-> "Ukraine", weight |-> 2] >>

MAX_LINES == 20

\* The mock API's protocolStatus at process start; a stage is its
\* `completed` flag (the names are constants).
initialProtocolStatus ==
  [enabled |-> TRUE, stages |-> << TRUE, TRUE, TRUE, FALSE, FALSE >>]

\* ------------------------------------------------------------------ state

VARIABLES
  devices,           \* useState(buildInitialDevices): records id, type, status
  activeAttacks,     \* useState([]): the active-attack list
  protocolEnabled,   \* useState(true)
  events,            \* useState([]): the event log, newest first
  stats,             \* useState({totalAttacks, blockedAttacks, activeThreats, attacksPerMinute})
  attackTimestamps,  \* useRef([]): the rolling timestamp window
  now,               \* Date.now()
  nextId,            \* the next id generateId() hands out
  lastOp,            \* history: the handler that ran last and its input
  closures,          \* the flag captured by each closure that reads it
  attackLines,       \* useAttackMap: useState([]), the lines on the map
  counters,          \* useAttackMap: useRef({total, blocked})
  provider,          \* the value prop of the mounted SimulationProvider
  published,         \* history: the values Layout handed to the provider
  lastRead,          \* the outcome of the latest useSimulationContext()
  loopPhase,         \* per loop: effect "pending", "active" or "torn"
  timers,            \* the browser's pending timeouts: handle, loop, due
  timeoutId,         \* per loop: `let timeoutId` of the running effect
  lastAutoAt,        \* history: time of engine start or latest auto attack
  protocolStatus,    \* mock API: `let protocolStatus`
  apiLog,            \* history: the requests the mock API served
  draw               \* history: the latest call of weightedRandomOrigin

\* The state of the map feed (hook useAttackMap).
feedVars == << attackLines, counters >>

\* The state of the distribution layer (SimulationContext).
ctxVars == << provider, published, lastRead >>

\* The state of the two generation loops and of the browser's timers.
timerVars == << loopPhase, timers, timeoutId, lastAutoAt >>

\* The state of the mock API server (api/index.js).
serverVars == << protocolStatus, apiLog >>

\* The mock API and the record of the latest origin draw.
sideVars == << serverVars, draw >>

\* What the handlers of the engine leave alone.
otherVars == << feedVars, ctxVars, timerVars, sideVars >>

vars ==
  << devices, activeAttacks, protocolEnabled, events, stats, attackTimestamps,
     now, nextId, lastOp, closures, feedVars, ctxVars, timerVars, sideVars >>

\* ---------------------------------------------------------------- helpers

Min(a, b) == IF a < b THEN a ELSE b

Max(a, b) == IF a > b THEN a ELSE b

\* Array.prototype.map over a sequence.
Map(s, f(_)) == [i \in 1..Len(s) |-> f(s[i])]

\* The results randomElement(array) can return.
randomElement(array) == {array[i] : i \in 1..Len(array)}

\* Number of elements of s that satisfy Test.
Count(s, Test(_)) == Cardinality({i \in 1..Len(s) : Test(s[i])})

Unblocked(a) == ~a.blocked

buildInitialDevices ==
  Map(initialDevices, LAMBDA device :
        [id |-> device.id, type |-> device.type, status |-> STATUS.SECURE])

\* Mutant: the slice keeps the tail, [event, ...prev].slice(-MAX_EVENTS).
pushEvent_SliceTail(prev, event) ==
  SubSeq(<<event>> \o prev, Max(1, Len(prev) + 2 - MAX_EVENTS), Len(prev) + 1)

\* pushEvent: [event, ...prev].slice(0, MAX_EVENTS)
pushEvent(prev, event) ==
  SubSeq(<<event>> \o prev, 1, Min(Len(prev) + 1, MAX_EVENTS))

\* Mutant: the callback has no dependency and keeps its first closure.
useCallback_NoDeps(previous, flag) == previous

\* useCallback(fn, [protocolEnabled]): a closure is named by the flag it
\* captured; a render keeps the previous closure unless the flag changed.
useCallback(previous, flag) == IF previous = flag THEN previous ELSE flag

\* Mutant: the effect has no dependency and keeps its first closure.
effectClosure_NoDeps(captured, previous, current) == captured

\* useEffect(effect, [fn]): the closure the effect's timer callback calls.
\* The effect runs again, capturing this render's fn, when fn changed.
effectClosure(captured, previous, current) ==
  IF current /= previous THEN current ELSE captured

\* The render that follows a change of protocolEnabled, with the effects it
\* flushes: startAttack (deps [protocolEnabled, pushEvent]) and
\* createAttackLine (deps [protocolEnabled]) are re-created, and the two
\* generation effects (deps [startAttack], [createAttackLine]) run again.
rerender(c, flag) ==
  LET startAttack == useCallback(c.startAttack, flag)
      createAttackLine == useCallback(c.createAttackLine, flag)
  IN  [startAttack |-> startAttack,
       createAttackLine |-> createAttackLine,
       autoEffect |-> effectClosure(c.autoEffect, c.startAttack, startAttack),
       mapEffect |-> effectClosure(c.mapEffect, c.createAttackLine,
                                   createAttackLine)]

\* The history record of the handler that ran last.
Op(op, type, id, found, wasBlocked, target, unblockedBefore) ==
  [op |-> op, type |-> type, id |-> id, found |-> found,
   wasBlocked |-> wasBlocked, target |-> target,
   unblockedBefore |-> unblockedBefore]

Init ==
  /\ devices = buildInitialDevices
  /\ activeAttacks = <<>>
  /\ protocolEnabled = TRUE
  /\ events = <<>>
  /\ stats = [totalAttacks |-> 0, blockedAttacks |-> 0, activeThreats |-> 0,
              attacksPerMinute |-> 0]
  /\ attackTimestamps = <<>>
  /\ now = 0
  /\ nextId = 1
  /\ lastOp = Op("init", "none", 0, FALSE, FALSE, "none", 0)
  /\ closures = [startAttack |-> TRUE, createAttackLine |-> TRUE,
                 autoEffect |-> TRUE, mapEffect |-> TRUE]
  /\ attackLines = <<>>
  /\ counters = [total |-> 0, blocked |-> 0]
  /\ provider = <<>>
  /\ published = <<>>
  /\ lastRead = [threw |-> FALSE, value |-> <<>>]
  /\ loopPhase = [engine |-> "pending", map |-> "pending"]
  /\ timers = {}
  /\ timeoutId = [engine |-> 0, map |-> 0]
  /\ lastAutoAt = 0
  /\ protocolStatus = initialProtocolStatus
  /\ apiLog = <<>>
  /\ draw = [size |-> 0, roll |-> 0, picked |-> <<>>]

\* ------------------------------------------------------------ startAttack

\* Mutant: an unknown type falls back to the first definition.
findDefinition_FirstOnMiss(attackType) ==
  LET hits == SelectSeq(attackDefinitions, LAMBDA a : a.id = attackType)
  IN  IF hits = <<>> THEN <<attackDefinitions[1]>> ELSE <<Head(hits)>>

\* attackDefinitions.find((a) => a.id === attackType): <<>> is `undefined`.
findDefinition(attackType) ==
  LET hits == SelectSeq(attackDefinitions, LAMBDA a : a.id = attackType)
  IN  IF hits = <<>> THEN <<>> ELSE <<Head(hits)>>

\* const blocked = protocolEnabled
blockedFlag(enabled) == enabled

\* Mutant: 'high' compromises the device as 'critical' does.
severityStatus_HighCompromises(definition) ==
  IF definition.severity \in {"critical", "high"}
  THEN STATUS.COMPROMISED ELSE STATUS.WARNING

\* The status an unblocked attack of this definition gives its target.
severityStatus(definition) ==
  IF definition.severity = "critical" THEN STATUS.COMPROMISED ELSE STATUS.WARNING

\* Mutant: filter where map was meant; the other devices are dropped.
startAttackDevices_DropOthers(prev, definition, targetDeviceId, blocked) ==
  IF ~blocked
  THEN Map(SelectSeq(prev, LAMBDA d : d.id = targetDeviceId),
           LAMBDA d : [d EXCEPT !.status = severityStatus(definition)])
  ELSE prev

\* setDevices of startAttack, run only when the attack is not blocked.
startAttackDevices(prev, definition, targetDeviceId, blocked) ==
  IF ~blocked
  THEN Map(prev, LAMBDA d :
             IF d.id # targetDeviceId THEN d
             ELSE [d EXCEPT !.status = severityStatus(definition)])
  ELSE prev

\* The pruning of the rolling window in startAttack's setStats updater.
pruneWindow(timestamps, t) ==
  SelectSeq(timestamps, LAMBDA x : x > t - WINDOW_MS)

\* Mutant: activeThreats counted for blocked attacks too.
startAttackStats_ThreatsAlways(prev, blocked, window) ==
  [totalAttacks |-> prev.totalAttacks + 1,
   blockedAttacks |-> prev.blockedAttacks + (IF blocked THEN 1 ELSE 0),
   activeThreats |-> prev.activeThreats + 1,
   attacksPerMinute |-> Len(window)]

\* setStats of startAttack; window is the pruned rolling window.
startAttackStats(prev, blocked, window) ==
  [totalAttacks |-> prev.totalAttacks + 1,
   blockedAttacks |-> prev.blockedAttacks + (IF blocked THEN 1 ELSE 0),
   activeThreats |-> IF blocked THEN prev.activeThreats ELSE prev.activeThreats + 1,
   attacksPerMinute |-> Len(window)]

\* Mutant: the message does not depend on `blocked`.
attackEvent_AlwaysSucceeded(id, definition, targetDeviceId, blocked, t) ==
  [id |-> id, timestamp |-> t, attackType |-> definition.id,
   severity |-> definition.severity, targetDeviceId |-> targetDeviceId,
   blocked |-> blocked, message |-> "succeeded"]

\* The event startAttack logs.
attackEvent(id, definition, targetDeviceId, blocked, t) ==
  [id |-> id, timestamp |-> t, attackType |-> definition.id,
   severity |-> definition.severity, targetDeviceId |-> targetDeviceId,
   blocked |-> blocked,
   message |-> IF blocked THEN "blocked by protocol" ELSE "succeeded"]

UnblockedCount(attacks) == Count(attacks, Unblocked)

\* startAttack(attackType), called by `caller` (a control or the timer), in a
\* run that holds at most maxAttacks attacks and issues at most maxIds ids.
StartAttackWithin(attackType, caller, maxAttacks, maxIds) ==
  LET found == findDefinition(attackType) IN
  IF found = <<>>
  THEN /\ lastOp' = Op(caller, attackType, 0, FALSE, FALSE, "none",
                       UnblockedCount(activeAttacks))
       /\ UNCHANGED << devices, activeAttacks, protocolEnabled, closures, events,
                       stats, attackTimestamps, now, nextId >>
  ELSE LET definition == found[1] IN
       /\ stats.totalAttacks < maxAttacks
       /\ nextId + 1 <= maxIds
       /\ \E targetDeviceId \in randomElement(definition.targetDevices) :
            LET blocked == blockedFlag(IF caller = "auto"
                                       THEN closures.autoEffect
                                       ELSE closures.startAttack)
                attack == [id |-> nextId, type |-> definition.id,
                           severity |-> definition.severity,
                           targetDeviceId |-> targetDeviceId,
                           blocked |-> blocked, timestamp |-> now]
                window == pruneWindow(Append(attackTimestamps, now), now)
            IN  /\ attackTimestamps' = window
                /\ activeAttacks' = Append(activeAttacks, attack)
                /\ devices' = startAttackDevices(devices, definition,
                                                 targetDeviceId, blocked)
                /\ events' = pushEvent(events,
                                attackEvent(nextId + 1, definition,
                                            targetDeviceId, blocked, now))
                /\ stats' = startAttackStats(stats, blocked, window)
                /\ nextId' = nextId + 2
                /\ lastOp' = Op(caller, attackType, nextId, TRUE, blocked,
                                targetDeviceId, UnblockedCount(activeAttacks))
                /\ UNCHANGED << protocolEnabled, closures, now >>

StartAttack(attackType, caller) ==
  StartAttackWithin(attackType, caller, MaxAttacks, MaxIds)

\* The inputs a caller can pass: every registry id and one unknown type.
AttackTypeInputs ==
  {attackDefinitions[i].id : i \in 1..Len(attackDefinitions)} \cup {"port_scan"}

ManualStart == \E attackType \in AttackTypeInputs : StartAttack(attackType, "startAttack")

\* The timer callback of the auto-generation effect.
AutoGenerate ==
  \E definition \in randomElement(attackDefinitions) : StartAttack(definition.id, "auto")

\* ------------------------------------------------------------- stopAttack

\* prev.find((a) => a.id === attackId): <<>> is `undefined`.
findAttack(prev, attackId) ==
  LET hits == SelectSeq(prev, LAMBDA a : a.id = attackId)
  IN  IF hits = <<>> THEN <<>> ELSE <<Head(hits)>>

\* prev.filter((a) => a.id !== attackId)
remainingAttacks(prev, attackId) == SelectSeq(prev, LAMBDA a : a.id # attackId)

\* Mutant: blocked attacks count as still targeting the device.
stillTargeted_AnyAttack(remaining, target) ==
  \E i \in 1..Len(remaining) :
     remaining[i].targetDeviceId = target.targetDeviceId

\* remaining.some((a) => a.targetDeviceId === target.targetDeviceId && !a.blocked)
stillTargeted(remaining, target) ==
  \E i \in 1..Len(remaining) :
     remaining[i].targetDeviceId = target.targetDeviceId /\ ~remaining[i].blocked

\* The setActiveAttacks updater of stopAttack.
stopAttackAttacks(prev, attackId) ==
  IF findAttack(prev, attackId) = <<>> THEN prev ELSE remainingAttacks(prev, attackId)

\* Mutant: the revert without the stillTargeted test.
stopAttackDevices_AlwaysRevert(prevDevices, prev, attackId) ==
  LET found == findAttack(prev, attackId) IN
  IF found = <<>> THEN prevDevices
  ELSE IF ~found[1].blocked
       THEN Map(prevDevices, LAMBDA d :
                  IF d.id = found[1].targetDeviceId
                  THEN [d EXCEPT !.status = STATUS.SECURE] ELSE d)
       ELSE prevDevices

\* The setDevices nested in that updater.
stopAttackDevices(prevDevices, prev, attackId) ==
  LET found == findAttack(prev, attackId) IN
  IF found = <<>> THEN prevDevices
  ELSE LET target == found[1]
           remaining == remainingAttacks(prev, attackId)
       IN  IF ~target.blocked /\ ~stillTargeted(remaining, target)
           THEN Map(prevDevices, LAMBDA d :
                      IF d.id = target.targetDeviceId
                      THEN [d EXCEPT !.status = STATUS.SECURE] ELSE d)
           ELSE prevDevices

\* Mutant: the decrement without the floor at zero.
stopAttackStats_NoFloor(prev) ==
  [prev EXCEPT !.activeThreats = prev.activeThreats - 1]

\* setStats of stopAttack: runs whether or not the attack was found.
stopAttackStats(prev) ==
  [prev EXCEPT !.activeThreats = Max(0, prev.activeThreats - 1)]

\* The ids a caller can pass: every id generateId has handed out so far
\* (ids of active attacks, of stopped attacks and of events).
StopInputs == 1..(nextId - 1)

StopAttack ==
  \E attackId \in StopInputs :
    LET found == findAttack(activeAttacks, attackId) IN
    /\ activeAttacks' = stopAttackAttacks(activeAttacks, attackId)
    /\ devices' = stopAttackDevices(devices, activeAttacks, attackId)
    /\ stats' = stopAttackStats(stats)
    /\ lastOp' = IF found = <<>>
                 THEN Op("stopAttack", "none", attackId, FALSE, FALSE, "none",
                         UnblockedCount(activeAttacks))
                 ELSE Op("stopAttack", found[1].type, attackId, TRUE,
                         found[1].blocked, found[1].targetDeviceId,
                         UnblockedCount(activeAttacks))
    /\ UNCHANGED << protocolEnabled, closures, events, attackTimestamps, now, nextId >>

\* --------------------------------------------------------- toggleProtocol

\* Mutant: every attack takes the new flag, in both directions.
toggleAttacks_FollowFlag(attacks, next) ==
  Map(attacks, LAMBDA a : [a EXCEPT !.blocked = next])

\* setActiveAttacks of the ON branch; the OFF branch leaves the list alone.
toggleAttacks(attacks, next) ==
  IF next THEN Map(attacks, LAMBDA a : [a EXCEPT !.blocked = TRUE]) ELSE attacks

\* Mutant: the ON branch heals the compromised devices only.
toggleDevices_CompromisedOnly(devs, next) ==
  IF next
  THEN Map(devs, LAMBDA d :
             IF d.status = STATUS.COMPROMISED
             THEN [d EXCEPT !.status = STATUS.SECURE] ELSE d)
  ELSE devs

\* setDevices of the ON branch.
toggleDevices(devs, next) ==
  IF next THEN Map(devs, LAMBDA d : [d EXCEPT !.status = STATUS.SECURE]) ELSE devs

\* Mutant: the ON branch leaves activeThreats as it was.
toggleStats_KeepsThreats(s, next) ==
  IF next
  THEN [s EXCEPT !.blockedAttacks = s.blockedAttacks + s.activeThreats]
  ELSE s

\* Mutant: the ON branch counts every attack created so far once more.
toggleStats_CountsAgain(s, next) ==
  IF next
  THEN [s EXCEPT !.activeThreats = 0,
                 !.blockedAttacks = s.blockedAttacks + s.totalAttacks]
  ELSE s

\* setStats of the ON branch.
toggleStats(s, next) ==
  IF next
  THEN [s EXCEPT !.activeThreats = 0,
                 !.blockedAttacks = s.blockedAttacks + s.activeThreats]
  ELSE s

\* The event toggleProtocol logs.
protocolEvent(id, next, t) ==
  [id |-> id, timestamp |-> t, attackType |-> "system",
   severity |-> IF next THEN "info" ELSE "high", targetDeviceId |-> "null",
   blocked |-> FALSE,
   message |-> IF next THEN "Security protocol ENABLED"
                       ELSE "Security protocol DISABLED"]

\* toggleProtocol() in a run that issues at most maxIds ids.
ToggleProtocolWithin(maxIds) ==
  LET next == ~protocolEnabled IN
  /\ nextId <= maxIds
  /\ activeAttacks' = toggleAttacks(activeAttacks, next)
  /\ devices' = toggleDevices(devices, next)
  /\ stats' = toggleStats(stats, next)
  /\ events' = pushEvent(events, protocolEvent(nextId, next, now))
  /\ protocolEnabled' = next
  /\ closures' = rerender(closures, next)
  /\ nextId' = nextId + 1
  /\ lastOp' = Op("toggleProtocol", "none", 0, FALSE, FALSE, "none",
                  UnblockedCount(activeAttacks))
  /\ UNCHANGED << attackTimestamps, now >>

ToggleProtocol == ToggleProtocolWithin(MaxIds)

\* ------------------------------------------------------------ clearEvents

\* Mutant: the clear resets the stats as well.
ClearEvents_AlsoStats ==
  /\ events' = <<>>
  /\ stats' = [totalAttacks |-> 0, blockedAttacks |-> 0, activeThreats |-> 0,
               attacksPerMinute |-> 0]
  /\ lastOp' = Op("clearEvents", "none", 0, FALSE, FALSE, "none",
                  UnblockedCount(activeAttacks))
  /\ UNCHANGED << devices, activeAttacks, protocolEnabled, closures,
                  attackTimestamps, now, nextId >>

ClearEvents ==
  /\ events' = <<>>
  /\ lastOp' = Op("clearEvents", "none", 0, FALSE, FALSE, "none",
                  UnblockedCount(activeAttacks))
  /\ UNCHANGED << devices, activeAttacks, protocolEnabled, closures, stats,
                  attackTimestamps, now, nextId >>

\* --------------------------------------------------------------- map feed

\* Mutant: the loop stops on roll < 0.
RECURSIVE rouletteFrom_Strict(_, _, _)
rouletteFrom_Strict(origins, i, roll) ==
  IF i > Len(origins) THEN origins[Len(origins)]
  ELSE IF roll - origins[i].weight < 0 THEN origins[i]
  ELSE rouletteFrom_Strict(origins, i + 1, roll - origins[i].weight)

\* The loop of weightedRandomOrigin from origin i on, with `roll` left.
RECURSIVE rouletteFrom(_, _, _)
rouletteFrom(origins, i, roll) ==
  IF i > Len(origins) THEN origins[Len(origins)]
  ELSE IF roll - origins[i].weight <= 0 THEN origins[i]
  ELSE rouletteFrom(origins, i + 1, roll - origins[i].weight)

\* weightedRandomOrigin(origins) when Math.random() * totalWeight is `roll`.
weightedRandomOrigin(origins, roll) == rouletteFrom(origins, 1, roll)

\* origins.reduce((sum, o) => sum + o.weight, 0), over the first n origins.
RECURSIVE sumWeights(_, _)
sumWeights(origins, n) ==
  IF n = 0 THEN 0 ELSE sumWeights(origins, n - 1) + origins[n].weight

totalWeight(origins) == sumWeights(origins, Len(origins))

\* The origins with every weight in units of 1 / k of a hundredth.
scaleWeights(origins, k) ==
  [i \in 1..Len(origins) |->
     [country |-> origins[i].country, weight |-> origins[i].weight * k]]

\* The first `size` origins of the registry, in the unit of the rolls.
originList(size) == scaleWeights(SubSeq(attackOrigins, 1, size), RollScale)

\* The values Math.random() * totalWeight takes on the grid of the rolls.
Rolls(origins) == 0..(totalWeight(origins) - 1)

\* The one call of weightedRandomOrigin of a run, on a non-empty prefix of
\* the registry.
DrawOrigin ==
  /\ draw.picked = <<>>
  /\ \E size \in 1..Len(attackOrigins) :
       \E roll \in Rolls(originList(size)) :
          draw' = [size |-> size, roll |-> roll,
                   picked |-> << weightedRandomOrigin(originList(size), roll) >>]
  /\ lastOp' = Op("weightedRandomOrigin", "none", 0, FALSE, FALSE, "none",
                  UnblockedCount(activeAttacks))
  /\ UNCHANGED << devices, activeAttacks, protocolEnabled, closures, events,
                  stats, attackTimestamps, now, nextId >>

OriginNext ==
  \/ DrawOrigin /\ UNCHANGED << feedVars, ctxVars, timerVars, serverVars >>

OriginSpec == Init /\ [][OriginNext]_vars

\* ---------------------------------------------------------------- mock API

\* The routes of the mock API.
GET_ENDPOINTS ==
  {"/api/devices", "/api/attacks", "/api/attacks/stats",
   "/api/protocol/status", "/api/events"}

\* Mutant: re-enabling completes the first four stages.
toggleStatus_FourStages(status) ==
  [enabled |-> ~status.enabled,
   stages |-> [i \in 1..Len(status.stages) |->
                 IF ~status.enabled THEN i - 1 <= 3 ELSE FALSE]]

\* The assignments of POST /api/protocol/toggle: flip enabled, then map the
\* stages (index is zero-based in the source).
toggleStatus(status) ==
  [enabled |-> ~status.enabled,
   stages |-> [i \in 1..Len(status.stages) |->
                 IF ~status.enabled THEN i - 1 < 3 ELSE FALSE]]

\* One served request as the history keeps it; body is the protocol status
\* sent back, or empty for the routes that send static data.
Served(endpoint, before, after, body) ==
  [endpoint |-> endpoint, before |-> before, after |-> after, body |-> body]

\* GET of one of the five read routes.
ApiGet ==
  /\ Len(apiLog) < MaxRequests
  /\ \E endpoint \in GET_ENDPOINTS :
       apiLog' = Append(apiLog,
                        Served(endpoint, protocolStatus, protocolStatus,
                               IF endpoint = "/api/protocol/status"
                               THEN << protocolStatus >> ELSE <<>>))
  /\ UNCHANGED protocolStatus

\* POST /api/protocol/toggle
ApiToggle ==
  /\ Len(apiLog) < MaxRequests
  /\ protocolStatus' = toggleStatus(protocolStatus)
  /\ apiLog' = Append(apiLog,
                      Served("/api/protocol/toggle", protocolStatus,
                             protocolStatus', << protocolStatus' >>))

\* What a request to the mock API leaves alone: the browser's state.
clientVars ==
  << devices, activeAttacks, protocolEnabled, events, stats, attackTimestamps,
     now, nextId, lastOp, closures, feedVars, ctxVars, timerVars, draw >>

ApiNext ==
  \/ ApiGet /\ UNCHANGED clientVars
  \/ ApiToggle /\ UNCHANGED clientVars

ApiSpec == Init /\ [][ApiNext]_vars

\* createAttackLine(): the record of the new line (`to`, name and color are
\* constants or functions of type and are left out).
createAttackLine(roll, definition, flag, id, time) ==
  [id |-> id, country |-> weightedRandomOrigin(attackOrigins, roll).country,
   type |-> definition.id, severity |-> definition.severity,
   timestamp |-> time, blocked |-> flag]

\* Mutant: every line counts as blocked.
countLine_AlwaysBlocked(c, blocked) ==
  [total |-> c.total + 1, blocked |-> c.blocked + 1]

\* counters.current.total += 1; if (blocked) counters.current.blocked += 1
countLine(c, blocked) ==
  [total |-> c.total + 1,
   blocked |-> c.blocked + (IF blocked THEN 1 ELSE 0)]

\* The stats object useAttackMap derives in a render.
mapStats(lines, c) ==
  [total |-> c.total, blocked |-> c.blocked,
   activeThreats |-> Count(lines, Unblocked)]

\* Mutant: the trim keeps the head, next.slice(0, MAX_LINES).
trimLines_KeepHead(next) ==
  IF Len(next) > MAX_LINES THEN SubSeq(next, 1, MAX_LINES) ELSE next

\* next.length > MAX_LINES ? next.slice(-MAX_LINES) : next
trimLines(next) ==
  IF Len(next) > MAX_LINES
  THEN SubSeq(next, Len(next) - MAX_LINES + 1, Len(next))
  ELSE next

\* The timer callback of the map feed, with the random draws taken from
\* `rolls` and `definitions`, in a run that creates at most maxLines lines.
\* The flag the hook is given is the engine's protocolEnabled.
MapFireWithin(rolls, definitions, maxLines) ==
  /\ counters.total < maxLines
  /\ \E roll \in rolls : \E definition \in definitions :
       LET line == createAttackLine(roll, definition, closures.mapEffect,
                                    nextId, now)
       IN  /\ attackLines' = trimLines(Append(attackLines, line))
           /\ counters' = countLine(counters, line.blocked)
           /\ nextId' = nextId + 1
           /\ lastOp' = Op("mapLine", definition.id, nextId, TRUE,
                           line.blocked, "none", UnblockedCount(activeAttacks))
  /\ UNCHANGED << devices, activeAttacks, protocolEnabled, closures, events,
                  stats, attackTimestamps, now >>

\* A long run of the map feed: one origin and one attack type, with the
\* protocol toggled at most MaxMapToggles times.
MapFire ==
  MapFireWithin({0}, {attackDefinitions[1]}, MaxMapLines)

MapToggle ==
  ToggleProtocolWithin(counters.total + MaxMapToggles) /\ UNCHANGED feedVars

MapNext ==
  \/ MapFire /\ UNCHANGED << ctxVars, timerVars, sideVars >>
  \/ MapToggle /\ UNCHANGED << ctxVars, timerVars, sideVars >>

MapSpec == Init /\ [][MapNext]_vars

\* ----------------------------------------------------- SimulationContext

\* createContext(null): null is the empty tuple, an object o is << o >>.
defaultValue == <<>>

\* The object useSimulation() returns to Layout (the handler functions are
\* the same in every render of the model and are left out).
simulation ==
  [devices |-> devices, activeAttacks |-> activeAttacks,
   protocolEnabled |-> protocolEnabled, events |-> events, stats |-> stats]

\* A render of Layout: <SimulationProvider value={simulation}>.
LayoutRender ==
  /\ Len(published) < MaxRenders
  /\ provider' = << simulation >>
  /\ published' = Append(published, simulation)
  /\ lastOp' = Op("Layout", "none", 0, FALSE, FALSE, "none",
                  UnblockedCount(activeAttacks))
  /\ UNCHANGED << devices, activeAttacks, protocolEnabled, closures, events,
                  stats, attackTimestamps, now, nextId, lastRead >>

\* useContext(SimulationContext) in a consumer inside or outside the
\* provider's subtree.
useContext(inside) == IF inside THEN provider ELSE defaultValue

\* Mutant: the null check is missing.
useSimulationContext_NoCheck(context) ==
  [threw |-> FALSE, value |-> context]

\* useSimulationContext(), given what useContext returned.
useSimulationContext(context) ==
  IF context = <<>>
  THEN [threw |-> TRUE, value |-> <<>>]
  ELSE [threw |-> FALSE, value |-> context]

\* A consumer calls useSimulationContext(); one inside the provider's
\* subtree exists only once Layout has rendered.
ConsumerRead ==
  \E inside \in BOOLEAN :
     /\ inside => published /= <<>>
     /\ lastRead' = useSimulationContext(useContext(inside))
     /\ lastOp' = Op("useSimulationContext", "none", 0, inside, FALSE, "none",
                     UnblockedCount(activeAttacks))
     /\ UNCHANGED << devices, activeAttacks, protocolEnabled, closures, events,
                     stats, attackTimestamps, now, nextId, provider, published >>

\* The engine changing between renders of Layout and reads of consumers.
ContextNext ==
  \/ LayoutRender /\ UNCHANGED << feedVars, timerVars, sideVars >>
  \/ ConsumerRead /\ UNCHANGED << feedVars, timerVars, sideVars >>
  \/ ToggleProtocol /\ UNCHANGED otherVars
  \/ ClearEvents /\ UNCHANGED otherVars

ContextSpec == Init /\ [][ContextNext]_vars

\* ----------------------------------------------------------------- timers

\* The bounds of the delay of the engine's loop, randomBetween(2000, 4000).
AUTO_MIN_DELAY == 2000

AUTO_MAX_DELAY == 4000

\* The bounds of the delay of the map feed's loop, randomBetween(1000, 3000).
MAP_MIN_DELAY == 1000

MAP_MAX_DELAY == 3000

\* randomBetween(min, max) returns any integer of min..max; the model draws
\* from the two ends and the middle.
randomBetween(min, max) == {min, (min + max) \div 2, max}

\* The delays scheduleNext of a loop can draw.
delaysOf(loop) ==
  IF loop = "engine" THEN randomBetween(AUTO_MIN_DELAY, AUTO_MAX_DELAY)
  ELSE randomBetween(MAP_MIN_DELAY, MAP_MAX_DELAY)

\* The distance between two delays the model draws.
DelayStep == (AUTO_MAX_DELAY - AUTO_MIN_DELAY) \div 2

\* The timer state as one record, to chain the steps of an effect.
timerState == [timers |-> timers, timeoutId |-> timeoutId]

\* The handle setTimeout returns: a positive integer that names no pending
\* timeout and that no effect still holds (handles are opaque; the browser
\* never hands out one that is in use).
freshHandle(ts) ==
  CHOOSE h \in 1..(Cardinality(ts.timers) + 3) :
     /\ \A t \in ts.timers : t.handle /= h
     /\ h /= ts.timeoutId["engine"]
     /\ h /= ts.timeoutId["map"]
     /\ \A g \in 1..(h - 1) :
           \/ \E t \in ts.timers : t.handle = g
           \/ g = ts.timeoutId["engine"]
           \/ g = ts.timeoutId["map"]

\* clearTimeout(timeoutId) of the effect of `loop`: the cleanup function.
cleanup(ts, loop) ==
  [ts EXCEPT !.timers = {t \in @ : t.handle /= ts.timeoutId[loop]}]

\* Mutant: the handle variable keeps the first timeout of the effect.
scheduleNext_KeepsFirstHandle(ts, loop, delay, time) ==
  [timers |-> ts.timers \cup
              {[handle |-> freshHandle(ts), loop |-> loop, due |-> time + delay]},
   timeoutId |-> IF ts.timeoutId[loop] = 0
                 THEN [ts.timeoutId EXCEPT ![loop] = freshHandle(ts)]
                 ELSE ts.timeoutId]

\* scheduleNext(): timeoutId = setTimeout(callback, delay).
scheduleNext(ts, loop, delay, time) ==
  [timers |-> ts.timers \cup
              {[handle |-> freshHandle(ts), loop |-> loop, due |-> time + delay]},
   timeoutId |-> [ts.timeoutId EXCEPT ![loop] = freshHandle(ts)]]

\* The timer variables take the values of the record.
SetTimerState(ts) ==
  /\ timers' = ts.timers
  /\ timeoutId' = ts.timeoutId

\* The effect of a loop runs for the first time: scheduleNext().  A new
\* effect has its own, unset, timeoutId.
MountLoop(loop) ==
  /\ loopPhase[loop] = "pending"
  /\ loopPhase' = [loopPhase EXCEPT ![loop] = "active"]
  /\ \E delay \in delaysOf(loop) :
       SetTimerState(scheduleNext(timerState, loop, delay, now))
  /\ closures' = IF loop = "engine"
                 THEN [closures EXCEPT !.autoEffect = closures.startAttack]
                 ELSE [closures EXCEPT !.mapEffect = closures.createAttackLine]
  /\ lastAutoAt' = IF loop = "engine" THEN now ELSE lastAutoAt
  /\ lastOp' = Op("mount", loop, 0, FALSE, FALSE, "none",
                  UnblockedCount(activeAttacks))
  /\ UNCHANGED << devices, activeAttacks, protocolEnabled, events, stats,
                  attackTimestamps, now, nextId >>

\* The component owning the loop unmounts: the cleanup function runs.
Teardown(loop) ==
  /\ loopPhase[loop] = "active"
  /\ loopPhase' = [loopPhase EXCEPT ![loop] = "torn"]
  /\ SetTimerState(cleanup(timerState, loop))
  /\ lastOp' = Op("teardown", loop, 0, FALSE, FALSE, "none",
                  UnblockedCount(activeAttacks))
  /\ UNCHANGED << devices, activeAttacks, protocolEnabled, closures, events,
                  stats, attackTimestamps, now, nextId, lastAutoAt >>

\* The browser runs a due timeout of the engine's loop:
\* startAttack(randomElement(attackDefinitions).id); scheduleNext(), with
\* the random definition taken from `definitions`.
EngineFireWithin(definitions) ==
  \E t \in timers :
     /\ t.loop = "engine"
     /\ t.due <= now
     /\ \E definition \in definitions :
          StartAttackWithin(definition.id, "auto", MaxAttacks, MaxTimerIds)
     /\ \E delay \in delaysOf("engine") :
          SetTimerState(scheduleNext([timerState EXCEPT !.timers = @ \ {t}],
                                     "engine", delay, now))
     /\ lastAutoAt' = now
     /\ UNCHANGED loopPhase

\* The engine's loop drawing one attack type.
EngineFire == EngineFireWithin({attackDefinitions[4]})

\* The browser runs a due timeout of the map feed's loop:
\* setAttackLines(updater); scheduleNext().
MapTimerFire ==
  \E t \in timers :
     /\ t.loop = "map"
     /\ t.due <= now
     /\ nextId <= MaxTimerIds
     /\ MapFire
     /\ \E delay \in delaysOf("map") :
          SetTimerState(scheduleNext([timerState EXCEPT !.timers = @ \ {t}],
                                     "map", delay, now))
     /\ UNCHANGED << loopPhase, lastAutoAt >>

\* Mutant: the effect runs again without the cleanup of the previous one.
rerunEffect_NoCleanup(ts, loop, delay, time) ==
  IF loopPhase[loop] = "active"
  THEN scheduleNext(ts, loop, delay, time)
  ELSE ts

\* The effect of an active loop runs again: its cleanup, then a new effect
\* with its own timeoutId calls scheduleNext().
rerunEffect(ts, loop, delay, time) ==
  IF loopPhase[loop] = "active"
  THEN scheduleNext(cleanup(ts, loop), loop, delay, time)
  ELSE ts

\* toggleProtocol() from a control of the mounted engine.  protocolEnabled is
\* a dependency of startAttack and of createAttackLine, which are the
\* dependencies of the two effects: both effects run again.
TimedToggle ==
  /\ loopPhase["engine"] = "active"
  /\ ToggleProtocolWithin(MaxTimerIds)
  /\ \E engineDelay \in delaysOf("engine") : \E mapDelay \in delaysOf("map") :
       SetTimerState(rerunEffect(rerunEffect(timerState, "engine",
                                             engineDelay, now),
                                 "map", mapDelay, now))
  /\ UNCHANGED << loopPhase, lastAutoAt >>

\* Time passes up to, never beyond, the next due timeout.
Advance ==
  /\ now + DelayStep <= MaxTimerClock
  /\ \A t \in timers : t.due >= now + DelayStep
  /\ now' = now + DelayStep
  /\ lastOp' = Op("advance", "none", 0, FALSE, FALSE, "none",
                  UnblockedCount(activeAttacks))
  /\ UNCHANGED << devices, activeAttacks, protocolEnabled, closures, events,
                  stats, attackTimestamps, nextId >>

\* The two loops with their timers, the protocol toggle, and teardown.
TimerNext ==
  \/ \E loop \in {"engine", "map"} :
        MountLoop(loop) /\ UNCHANGED << feedVars, ctxVars, sideVars >>
  \/ \E loop \in {"engine", "map"} :
        Teardown(loop) /\ UNCHANGED << feedVars, ctxVars, sideVars >>
  \/ EngineFire /\ UNCHANGED << feedVars, ctxVars, sideVars >>
  \/ MapTimerFire /\ UNCHANGED << ctxVars, sideVars >>
  \/ TimedToggle /\ UNCHANGED << feedVars, ctxVars, sideVars >>
  \/ Advance /\ UNCHANGED << feedVars, ctxVars, timerVars, sideVars >>

TimerSpec == Init /\ [][TimerNext]_vars

\* ------------------------------------------------------------------ clock

\* Time passes between two handlers.
Tick ==
  /\ now + TickStep <= MaxClock
  /\ now' = now + TickStep
  /\ lastOp' = Op("tick", "none", 0, FALSE, FALSE, "none",
                  UnblockedCount(activeAttacks))
  /\ UNCHANGED << devices, activeAttacks, protocolEnabled, closures, events,
                  stats, attackTimestamps, nextId >>

\* The handlers of the engine; the clock stands still.
Next ==
  \/ ManualStart /\ UNCHANGED otherVars
  \/ AutoGenerate /\ UNCHANGED otherVars
  \/ StopAttack /\ UNCHANGED otherVars
  \/ ToggleProtocol /\ UNCHANGED otherVars
  \/ ClearEvents /\ UNCHANGED otherVars

Spec == Init /\ [][Next]_vars

\* The handlers with time passing between them.
TimedNext ==
  \/ Next
  \/ Tick /\ UNCHANGED otherVars

TimedSpec == Init /\ [][TimedNext]_vars

\* A long run of the handlers that write the event log: toggles, starts of
\* one attack type, and clears.
LogToggle == ToggleProtocolWithin(MaxLogIds)

LogStart ==
  StartAttackWithin(ATTACK_TYPES.DOS, "startAttack", MaxLogAttacks, MaxLogIds)

LogNext ==
  \/ LogToggle /\ UNCHANGED otherVars
  \/ LogStart /\ UNCHANGED otherVars
  \/ ClearEvents /\ UNCHANGED otherVars

LogSpec == Init /\ [][LogNext]_vars

\* ------------------------------------------------------------ properties

\* Some active attack with blocked = false targets the device.
HasUnblockedAttack(deviceId) ==
  \E i \in 1..Len(activeAttacks) :
     activeAttacks[i].targetDeviceId = deviceId /\ ~activeAttacks[i].blocked

DeviceStatus(deviceId) ==
  LET i == CHOOSE k \in 1..Len(devices) : devices[k].id = deviceId
  IN  devices[i].status

\* C1: status consistency.  In every reachable state every device is
\* 'warning' or 'compromised' if and only if an active attack with
\* blocked = false targets it, and 'secure' otherwise.
C1_StatusConsistency ==
  \A i \in 1..Len(devices) :
     IF HasUnblockedAttack(devices[i].id)
     THEN devices[i].status \in {STATUS.WARNING, STATUS.COMPROMISED}
     ELSE devices[i].status = STATUS.SECURE

\* An unblocked attack was stopped and its device stays non-secure because
\* another unblocked attack still targets it.
C1_Witness ==
  /\ lastOp.op = "stopAttack"
  /\ lastOp.found
  /\ ~lastOp.wasBlocked
  /\ HasUnblockedAttack(lastOp.target)
  /\ DeviceStatus(lastOp.target) # STATUS.SECURE

\* C2: stats.activeThreats is the number of active attacks with
\* blocked = false, in every reachable state.
C2_ActiveThreatsIsUnblockedCount ==
  stats.activeThreats = UnblockedCount(activeAttacks)

\* The ids of the attack definitions.
KnownTypes == {attackDefinitions[i].id : i \in 1..Len(attackDefinitions)}

\* The step is a toggleProtocol() that turns the protocol on / off.
ToggleOnStep == lastOp'.op = "toggleProtocol" /\ ~protocolEnabled /\ protocolEnabled'

ToggleOffStep == lastOp'.op = "toggleProtocol" /\ protocolEnabled /\ ~protocolEnabled'

\* The step is a startAttack (by a control or by the timer) with a type of
\* the registry / with another type.
StartKnownStep == lastOp'.op \in {"startAttack", "auto"} /\ lastOp'.type \in KnownTypes

StartUnknownStep == lastOp'.op \in {"startAttack", "auto"} /\ lastOp'.type \notin KnownTypes

\* The step is a stopAttack(lastOp'.id), the id being in / not in the list.
InList(attackId) == \E i \in 1..Len(activeAttacks) : activeAttacks[i].id = attackId

StopFoundStep == lastOp'.op = "stopAttack" /\ InList(lastOp'.id)

StopMissingStep == lastOp'.op = "stopAttack" /\ ~InList(lastOp'.id)

AllSecure(devs) == \A i \in 1..Len(devs) : devs[i].status = STATUS.SECURE

\* The log after one event was pushed on `prev`: capped, newest first.
OneEventPushed(prev, log) ==
  /\ Len(log) = Min(Len(prev) + 1, MAX_EVENTS)
  /\ \A i \in 2..Len(log) : log[i] = prev[i - 1]

\* C3: toggle-on convergence.  A toggleProtocol() that takes the flag from
\* disabled to enabled ends with activeThreats = 0, every device secure, and
\* the same attacks in the list, each with blocked = true.
C3_ToggleOnConvergence ==
  [][ ToggleOnStep =>
        /\ stats'.activeThreats = 0
        /\ AllSecure(devices')
        /\ Len(activeAttacks') = Len(activeAttacks)
        /\ \A i \in 1..Len(activeAttacks) :
              activeAttacks'[i] = [activeAttacks[i] EXCEPT !.blocked = TRUE] ]_vars

\* The protocol was just turned on over a list that held unblocked attacks.
C3_Witness ==
  /\ lastOp.op = "toggleProtocol"
  /\ protocolEnabled
  /\ lastOp.unblockedBefore > 0
  /\ Len(activeAttacks) >= lastOp.unblockedBefore
  /\ AllSecure(devices)

C5_ToggleOnCountsNeutralized ==
  [][ ToggleOnStep =>
        /\ stats'.blockedAttacks = stats.blockedAttacks + UnblockedCount(activeAttacks)
        /\ stats'.totalAttacks = stats.totalAttacks ]_vars

\* C6: stopAttack(id) with an id that is not in the active-attack list
\* changes nothing: devices, attacks, event log, flag and every stats field.
C6_StopMissingIsNoOp ==
  [][ StopMissingStep =>
        UNCHANGED << devices, activeAttacks, events, protocolEnabled, stats >> ]_vars

\* C7: startAttack(attackType) with a type that is no id of attackDefinitions
\* leaves devices, attacks, event log, stats and the rolling window unchanged.
C7_StartUnknownIsNoOp ==
  [][ StartUnknownStep =>
        UNCHANGED << devices, activeAttacks, events, stats, attackTimestamps,
                     protocolEnabled >> ]_vars

\* startAttack was just called with an unknown type on a non-empty engine.
C7_Witness ==
  /\ lastOp.op = "startAttack"
  /\ lastOp.type \notin KnownTypes
  /\ activeAttacks # <<>>
  /\ events # <<>>
  /\ stats.totalAttacks = Len(activeAttacks)

\* C8: startAttack with a known type while the protocol is enabled appends
\* exactly one attack, with blocked = true, changes no device status, raises
\* totalAttacks and blockedAttacks by one and leaves activeThreats alone; from
\* the initial state the list has length 1 and the stats are 1, 1, 0.
C8_StartWhileEnabled ==
  [][ (StartKnownStep /\ protocolEnabled) =>
        /\ Len(activeAttacks') = Len(activeAttacks) + 1
        /\ SubSeq(activeAttacks', 1, Len(activeAttacks)) = activeAttacks
        /\ activeAttacks'[Len(activeAttacks')].blocked = TRUE
        /\ devices' = devices
        /\ stats'.totalAttacks = stats.totalAttacks + 1
        /\ stats'.blockedAttacks = stats.blockedAttacks + 1
        /\ stats'.activeThreats = stats.activeThreats
        /\ (nextId = 1 =>
              /\ Len(activeAttacks') = 1
              /\ stats'.totalAttacks = 1
              /\ stats'.blockedAttacks = 1
              /\ stats'.activeThreats = 0
              /\ AllSecure(devices')) ]_vars

\* Scenario A: startAttack('denial_of_service') was the first call on a new engine.
C8_Witness ==
  /\ lastOp.op = "startAttack"
  /\ lastOp.type = ATTACK_TYPES.DOS
  /\ protocolEnabled
  /\ nextId = 3
  /\ Len(activeAttacks) = 1
  /\ activeAttacks[1].blocked
  /\ stats.totalAttacks = 1
  /\ stats.blockedAttacks = 1
  /\ stats.activeThreats = 0
  /\ AllSecure(devices)

\* The severity of the definition with this id.
SeverityOf(type) ==
  LET i == CHOOSE k \in 1..Len(attackDefinitions) : attackDefinitions[k].id = type
  IN  attackDefinitions[i].severity

\* C9: startAttack with a known type while the protocol is disabled appends
\* exactly one attack, with blocked = false; the chosen target, and no other
\* device, becomes 'compromised' for a critical definition and 'warning'
\* otherwise; totalAttacks and activeThreats rise by one, blockedAttacks stays.
C9_StartWhileDisabled ==
  [][ (StartKnownStep /\ ~protocolEnabled) =>
        LET new == activeAttacks'[Len(activeAttacks')] IN
        /\ Len(activeAttacks') = Len(activeAttacks) + 1
        /\ SubSeq(activeAttacks', 1, Len(activeAttacks)) = activeAttacks
        /\ new.blocked = FALSE
        /\ new.type = lastOp'.type
        /\ \A i \in 1..Len(devices) :
              devices'[i] =
                IF devices[i].id = new.targetDeviceId
                THEN [devices[i] EXCEPT !.status =
                        IF SeverityOf(lastOp'.type) = "critical"
                        THEN STATUS.COMPROMISED ELSE STATUS.WARNING]
                ELSE devices[i]
        /\ stats'.totalAttacks = stats.totalAttacks + 1
        /\ stats'.activeThreats = stats.activeThreats + 1
        /\ stats'.blockedAttacks = stats.blockedAttacks ]_vars

\* A non-critical attack just succeeded while a critical one holds another
\* device: one device is 'warning', one is 'compromised'.
C9_Witness ==
  /\ lastOp.op \in {"startAttack", "auto"}
  /\ lastOp.found
  /\ ~protocolEnabled
  /\ ~lastOp.wasBlocked
  /\ SeverityOf(lastOp.type) = "high"
  /\ DeviceStatus(lastOp.target) = STATUS.WARNING
  /\ \E i \in 1..Len(devices) : devices[i].status = STATUS.COMPROMISED

\* C10: stopAttack(id) of an active attack removes that attack and no other;
\* its target becomes 'secure' exactly when it was unblocked and no remaining
\* attack on that device is unblocked (blocked ones do not matter); no other
\* device status changes.
C10_StopRemovesAndReverts ==
  [][ StopFoundStep =>
        LET k == CHOOSE i \in 1..Len(activeAttacks) : activeAttacks[i].id = lastOp'.id
            target == activeAttacks[k]
            revert ==
              /\ ~target.blocked
              /\ ~\E i \in 1..Len(activeAttacks') :
                    /\ activeAttacks'[i].targetDeviceId = target.targetDeviceId
                    /\ ~activeAttacks'[i].blocked
        IN  /\ Len(activeAttacks') = Len(activeAttacks) - 1
            /\ \A i \in 1..Len(activeAttacks') :
                  activeAttacks'[i] = IF i < k THEN activeAttacks[i]
                                      ELSE activeAttacks[i + 1]
            /\ \A i \in 1..Len(devices) :
                  devices'[i] =
                    IF devices[i].id = target.targetDeviceId /\ revert
                    THEN [devices[i] EXCEPT !.status = STATUS.SECURE]
                    ELSE devices[i] ]_vars

\* Scenario D: the unblocked attack on a device was stopped, a blocked attack
\* on the same device remains, and the device is back to 'secure'.
C10_Witness ==
  /\ lastOp.op = "stopAttack"
  /\ lastOp.found
  /\ ~lastOp.wasBlocked
  /\ \E i \in 1..Len(activeAttacks) :
        activeAttacks[i].targetDeviceId = lastOp.target /\ activeAttacks[i].blocked
  /\ DeviceStatus(lastOp.target) = STATUS.SECURE


TargetsOf(type) ==
  LET i == CHOOSE k \in 1..Len(attackDefinitions) : attackDefinitions[k].id = type
  IN  randomElement(attackDefinitions[i].targetDevices)

DeviceIds == {devices[i].id : i \in 1..Len(devices)}

\* C18: target validity.  Every active attack, started by a control or by
\* the loop, has the id of an attack definition as type and a member of that
\* definition's targetDevices as target, which is the id of a device.
C18_TargetValidity ==
  \A i \in 1..Len(activeAttacks) :
     /\ activeAttacks[i].type \in KnownTypes
     /\ activeAttacks[i].targetDeviceId \in TargetsOf(activeAttacks[i].type)
     /\ activeAttacks[i].targetDeviceId \in DeviceIds

\* The loop just started a second attack, of another type than the first.
C18_Witness ==
  /\ lastOp.op = "auto"
  /\ lastOp.found
  /\ Len(activeAttacks) = 2
  /\ activeAttacks[1].type # activeAttacks[2].type

\* The step is a clearEvents().
ClearStep == lastOp'.op = "clearEvents"

\* C19: clearEvents() empties the event log in every state and leaves
\* devices, attacks, flag, stats and the rolling window as they were.
C19_ClearEventsFrame ==
  [][ ClearStep =>
        /\ events' = <<>>
        /\ UNCHANGED << devices, activeAttacks, protocolEnabled, stats,
                        attackTimestamps >> ]_vars

\* clearEvents just ran on an engine with attacks, threats and a window.
C19_Witness ==
  /\ lastOp.op = "clearEvents"
  /\ events = <<>>
  /\ activeAttacks # <<>>
  /\ stats.activeThreats > 0
  /\ attackTimestamps # <<>>
  /\ ~AllSecure(devices)

\* C20: the device set is fixed.  In every reachable state the device list
\* holds the ids of the registry, each once, in the registry's order and with
\* its static attributes, and every status is one of the three values; in the
\* initial state every device is secure.
C20_DeviceSetFixed ==
  /\ Len(devices) = Len(initialDevices)
  /\ Len(devices) = 6
  /\ \A i \in 1..Len(devices) :
        /\ devices[i].id = initialDevices[i].id
        /\ devices[i].type = initialDevices[i].type
        /\ devices[i].status \in {STATUS.SECURE, STATUS.WARNING, STATUS.COMPROMISED}
  /\ \A i, j \in 1..Len(devices) : devices[i].id = devices[j].id => i = j
  /\ (lastOp.op = "init" => AllSecure(devices))

\* Statuses were written by startAttack and by stopAttack: one device is
\* compromised, and an attack was stopped.
C20_Witness ==
  /\ lastOp.op = "stopAttack"
  /\ lastOp.found
  /\ \E i \in 1..Len(devices) : devices[i].status = STATUS.COMPROMISED
  /\ \E i \in 1..Len(devices) : devices[i].status = STATUS.SECURE


\* The attacks created within the trailing window of the present moment.
\* The rolling window drops a timestamp only once it is WINDOW_MS old, and the
\* clock never runs backwards, so every attack that young is still in it.
AttacksInTrailingWindow ==
  Cardinality({i \in 1..Len(attackTimestamps) :
                 now - attackTimestamps[i] < WINDOW_MS})

\* C14: rate-window correctness.  Whenever stats.attacksPerMinute is read it
\* is the number of attacks created strictly within the trailing 60 seconds,
\* also after time has passed or stopAttack / toggleProtocol ran without a
\* new startAttack.
C14_RateWindow == stats.attacksPerMinute = AttacksInTrailingWindow


\* An event was pushed by the step: a toggle, or a start of a known type.
EventPushedStep ==
  \/ lastOp'.op = "toggleProtocol"
  \/ lastOp'.op \in {"startAttack", "auto"} /\ lastOp'.found

\* Newest first: every entry was created after the entries behind it.
NewestFirst(log) ==
  \A i \in 2..Len(log) :
     log[i - 1].id > log[i].id /\ log[i - 1].timestamp >= log[i].timestamp

\* C12: event-log cap.  The log never holds more than 50 entries and is
\* ordered newest-first; a handler that adds an event puts it at the head,
\* keeps the earlier entries behind it in their order, and when the log was
\* full drops exactly its last (oldest) entry.
C12_EventLogCap ==
  [][ /\ Len(events') <= 50
      /\ NewestFirst(events')
      /\ EventPushedStep =>
           /\ events'[1].id >= nextId
           /\ \A i \in 2..Len(events') : events'[i] = events[i - 1]
           /\ Len(events') = IF Len(events) = 50 THEN 50 ELSE Len(events) + 1 ]_vars

\* A toggle just added an event to a full log that holds an attack event:
\* the oldest entry was evicted.
C12_Witness ==
  /\ lastOp.op = "toggleProtocol"
  /\ Len(events) = 50
  /\ events[50].id > 1
  /\ stats.totalAttacks = 1
  /\ nextId = 53


\* The map feed's callback created a line in the step.
MapLineStep == lastOp'.op = "mapLine"

\* C13: map-line cap.  The collection never holds more than 20 lines and is
\* in creation order; a firing appends the new line at the end, keeps the
\* earlier lines in their order, and on overflow drops exactly the first
\* (oldest) one, so the collection is the last (up to) 20 lines created.
C13_MapLineCap ==
  [][ /\ Len(attackLines') <= 20
      /\ Len(attackLines') = (IF counters'.total < 20 THEN counters'.total ELSE 20)
      /\ \A i \in 2..Len(attackLines') :
            attackLines'[i - 1].id < attackLines'[i].id
      /\ MapLineStep =>
           LET dropped == IF Len(attackLines) = 20 THEN 1 ELSE 0 IN
           /\ Len(attackLines') = Len(attackLines) + 1 - dropped
           /\ attackLines'[Len(attackLines')].id = nextId
           /\ \A i \in 1..(Len(attackLines') - 1) :
                 attackLines'[i] = attackLines[i + dropped] ]_vars

\* The loop fired on a full collection whose lines differ in `blocked`: the
\* oldest line was dropped.
C13_Witness ==
  /\ lastOp.op = "mapLine"
  /\ counters.total = 22
  /\ Len(attackLines) = 20
  /\ attackLines[1].blocked /= attackLines[20].blocked


\* A consumer called useSimulationContext() in the step; lastOp'.found tells
\* whether the consumer is inside the provider's subtree.
ReadStep == lastOp'.op = "useSimulationContext"

\* C15: state distribution layer.  A read with no publisher above the
\* consumer ends in the error and returns no value; a read under the
\* publisher returns the one object Layout published last, whatever was
\* published before; no other step changes the outcome of a read.
C15_ContextRead ==
  [][ /\ ReadStep /\ ~lastOp'.found =>
           lastRead'.threw /\ lastRead'.value = <<>>
      /\ ReadStep /\ lastOp'.found =>
           /\ ~lastRead'.threw
           /\ lastRead'.value = << published[Len(published)] >>
      /\ ~ReadStep => lastRead' = lastRead ]_vars

\* A consumer under the provider read after Layout had published two
\* different engine objects, and got a value.
C15_Witness ==
  /\ lastOp.op = "useSimulationContext"
  /\ lastOp.found
  /\ ~lastRead.threw
  /\ Len(published) >= 2
  /\ published[1] /= published[Len(published)]


\* The pending timeouts of a loop in a timer table.
LoopTimers(table, loop) == {t \in table : t.loop = loop}

\* The callback of the loop ran in the step.
CallbackStep(loop) ==
  IF loop = "engine" THEN lastOp'.op = "auto" ELSE lastOp'.op = "mapLine"

\* The step leaves the state the loop's callback writes as it was.
LoopStateUnchanged(loop) ==
  IF loop = "engine"
  THEN UNCHANGED << devices, activeAttacks, events, stats, attackTimestamps >>
  ELSE UNCHANGED << attackLines, counters >>

\* C16: timer teardown.  For the engine's loop and for the map feed's loop:
\* once the owning component is torn down no timeout of the loop is pending,
\* the loop's callback runs only while the loop is active, and after
\* teardown nothing the callback writes changes.
C16_TimerTeardown ==
  [][ \A loop \in {"engine", "map"} :
        /\ loopPhase'[loop] = "torn" => LoopTimers(timers', loop) = {}
        /\ CallbackStep(loop) => loopPhase[loop] = "active"
        /\ loopPhase[loop] = "torn" => LoopStateUnchanged(loop) ]_vars

\* Both loops were torn down after each had fired and scheduled again.
C16_Witness ==
  /\ lastOp.op = "teardown"
  /\ loopPhase["engine"] = "torn"
  /\ loopPhase["map"] = "torn"
  /\ stats.totalAttacks >= 1
  /\ counters.total >= 1
  /\ timers = {}

\* C17: autonomous generation.  While the engine is mounted, never more
\* than 4 time units (4000 ms) pass since the engine started or since the
\* latest auto-generated attack, and an auto-generated attack comes at least
\* 2 time units (2000 ms) after the previous one or the start.
C17_AutoEveryTwoToFour ==
  [][ /\ loopPhase'["engine"] = "active" => now' - lastAutoAt' <= 4000
      /\ CallbackStep("engine") => now - lastAutoAt >= 2000 ]_vars


\* C21: map feed blocking.  A line the map feed creates has blocked equal to
\* the protocol flag of that moment; a line that stays in the collection
\* keeps its blocked value (and every other field); a toggle of the protocol
\* leaves the collection as it is.
C21_MapLineBlocking ==
  [][ /\ MapLineStep =>
           attackLines'[Len(attackLines')].blocked = protocolEnabled
      /\ \A i \in 1..Len(attackLines) : \A j \in 1..Len(attackLines') :
            attackLines[i].id = attackLines'[j].id =>
               attackLines[i].blocked = attackLines'[j].blocked
      /\ lastOp'.op = "toggleProtocol" => attackLines' = attackLines ]_vars

\* The protocol was just switched on while the collection holds a line
\* created unblocked, and a line created blocked before it.
C21_Witness ==
  /\ lastOp.op = "toggleProtocol"
  /\ protocolEnabled
  /\ \E i \in 1..Len(attackLines) : \E j \in 1..Len(attackLines) :
        i < j /\ attackLines[i].blocked /\ ~attackLines[j].blocked


\* C22: atomicity of flag reads.  Every attack startAttack creates, from a
\* control or from the timer, has blocked equal to the committed value of
\* protocolEnabled at the call; the closures that read the flag never lag
\* behind a completed toggle.
C22_FlagReadIsCommitted ==
  [][ /\ StartKnownStep =>
           LET attack == activeAttacks'[Len(activeAttacks')] IN
           /\ attack.id = lastOp'.id
           /\ attack.blocked = protocolEnabled
           /\ lastOp'.wasBlocked = protocolEnabled
      /\ closures'.startAttack = protocolEnabled'
      /\ closures'.autoEffect = protocolEnabled' ]_vars

\* The timer created an unblocked attack after a toggle had switched the
\* protocol off; the attack created before the toggle is still blocked.
C22_Witness ==
  /\ lastOp.op = "auto"
  /\ lastOp.found
  /\ ~lastOp.wasBlocked
  /\ ~protocolEnabled
  /\ Len(activeAttacks) = 2
  /\ activeAttacks[1].blocked
  /\ ~activeAttacks[2].blocked


\* Some active attack with blocked = false and severity 'critical' targets
\* the device.
HasUnblockedCriticalAttack(deviceId) ==
  \E i \in 1..Len(activeAttacks) :
     /\ activeAttacks[i].targetDeviceId = deviceId
     /\ ~activeAttacks[i].blocked
     /\ activeAttacks[i].severity = "critical"

\* C23: severity determines the non-secure status.  A device is
\* 'compromised' exactly when an active unblocked critical attack targets
\* it, and 'warning' exactly when active unblocked attacks target it and none
\* of them is critical.
C23_SeverityDeterminesStatus ==
  \A i \in 1..Len(devices) :
     LET device == devices[i] IN
     /\ device.status = STATUS.COMPROMISED <=>
           HasUnblockedCriticalAttack(device.id)
     /\ device.status = STATUS.WARNING <=>
           (HasUnblockedAttack(device.id) /\
            ~HasUnblockedCriticalAttack(device.id))


\* C24: the event of a start.  A startAttack of a known type puts exactly one
\* new event at the head of the log; its blocked, targetDeviceId, severity
\* and timestamp are those of the attack just created and its message says
\* 'blocked by protocol' or 'succeeded' after `blocked`.  stopAttack leaves
\* the log as it is.
C24_StartLogsOneEvent ==
  [][ /\ StartKnownStep =>
           LET attack == activeAttacks'[Len(activeAttacks')]
               event == events'[1]
           IN  /\ OneEventPushed(events, events')
               /\ \A i \in 1..Len(events) : events[i].id /= event.id
               /\ event.attackType = attack.type
               /\ event.blocked = attack.blocked
               /\ event.targetDeviceId = attack.targetDeviceId
               /\ event.severity = attack.severity
               /\ event.timestamp = attack.timestamp
               /\ event.message = (IF attack.blocked THEN "blocked by protocol"
                                                     ELSE "succeeded")
      /\ lastOp'.op = "stopAttack" => events' = events ]_vars

\* A start logged an attack that succeeded on top of the event of an attack
\* that had been blocked.
C24_Witness ==
  /\ lastOp.op \in {"startAttack", "auto"}
  /\ lastOp.found
  /\ ~lastOp.wasBlocked
  /\ Len(events) >= 3
  /\ events[1].message = "succeeded"
  /\ events[3].message = "blocked by protocol"


\* The rolls that are not a whole number of hundredths: between two
\* cumulative weights, never on one.
InteriorRolls(origins) == {r \in Rolls(origins) : r % RollScale /= 0}

\* The rolls for which the draw returns origins[i].
RollsPicking(origins, rolls, i) ==
  {r \in rolls : weightedRandomOrigin(origins, r) = origins[i]}

\* The registry in the unit of the rolls.
registryOrigins == originList(Len(attackOrigins))

\* Over the registry every origin is picked for a share of the rolls
\* proportional to its weight, and every origin of positive weight is picked
\* for some roll.
SharesProportional ==
  \A i \in 1..Len(registryOrigins) :
     /\ Cardinality(RollsPicking(registryOrigins,
                                 InteriorRolls(registryOrigins), i))
           * totalWeight(registryOrigins)
        = registryOrigins[i].weight * Cardinality(InteriorRolls(registryOrigins))
     /\ registryOrigins[i].weight > 0 =>
           RollsPicking(registryOrigins, Rolls(registryOrigins), i) /= {}

\* C25: weighted origin selection.  The draw returns the first origin whose
\* cumulative weight is at least the roll, which is a member of the list;
\* over the registry every origin is picked for a share of the rolls
\* proportional to its weight, and every origin of positive weight is picked
\* for some roll.
C25_RouletteDraw ==
  /\ draw.picked /= <<>> =>
       LET origins == originList(draw.size) IN
       \E i \in 1..Len(origins) :
          /\ draw.picked = << origins[i] >>
          /\ sumWeights(origins, i) >= draw.roll
          /\ \A j \in 1..(i - 1) : sumWeights(origins, j) < draw.roll
  /\ SharesProportional

\* The draw returned the first origin for a roll equal to its weight: the
\* cumulative weight is at least the roll, with equality.
C25_Witness ==
  /\ draw.size = Len(attackOrigins)
  /\ draw.picked = << originList(draw.size)[1] >>
  /\ draw.roll = originList(draw.size)[1].weight


ToggleServed(log) ==
  Len(log) > 0 /\ log[Len(log)].endpoint = "/api/protocol/toggle"

\* C27: mock API.  A toggle flips enabled and answers with the updated
\* status; whenever enabled, exactly the first three stages are completed,
\* and otherwise none is; a toggle that follows a toggle restores the status
\* held before the first of the two (the initial one when they are the
\* first two requests); a GET leaves the status alone.
C27_ApiToggle ==
  [][ LET n == Len(apiLog')
          served == apiLog'[n]
      IN  /\ protocolStatus'.stages =
                (IF protocolStatus'.enabled
                 THEN << TRUE, TRUE, TRUE, FALSE, FALSE >>
                 ELSE << FALSE, FALSE, FALSE, FALSE, FALSE >>)
          /\ n = Len(apiLog) + 1 =>
                IF ToggleServed(apiLog')
                THEN /\ protocolStatus'.enabled = ~protocolStatus.enabled
                     /\ served.body = << protocolStatus' >>
                     /\ ToggleServed(apiLog) =>
                          protocolStatus' = apiLog[Len(apiLog)].before
                     /\ (n = 2 /\ ToggleServed(apiLog)) =>
                          protocolStatus' = initialProtocolStatus
                ELSE /\ served.endpoint \in GET_ENDPOINTS
                     /\ protocolStatus' = protocolStatus
      ]_vars

\* The first two requests were toggles: off, then on again.
C27_Witness ==
  /\ Len(apiLog) = 2
  /\ apiLog[1].endpoint = "/api/protocol/toggle"
  /\ ~apiLog[1].after.enabled
  /\ ToggleServed(apiLog)
  /\ protocolStatus.enabled


\* C28: counter bound.  The attacks counted as blocked, together with those
\* still counted as threats, never outnumber the attacks created, so
\* blockedAttacks <= totalAttacks; totalAttacks grows by one exactly with
\* each startAttack of a known type and is changed by no other step.
C28_BlockedWithinTotal ==
  [][ /\ stats'.blockedAttacks <= stats'.totalAttacks
      /\ stats'.blockedAttacks + stats'.activeThreats <= stats'.totalAttacks
      /\ stats'.totalAttacks =
            stats.totalAttacks + (IF StartKnownStep THEN 1 ELSE 0)
      ]_vars

\* An attack that got through was blocked by the ON transition and then
\* stopped: it is counted as blocked once.
C28_Witness ==
  /\ lastOp.op = "stopAttack"
  /\ lastOp.found
  /\ protocolEnabled
  /\ stats.totalAttacks = 1
  /\ stats.blockedAttacks = 1
  /\ activeAttacks = <<>>
  /\ \E i \in 1..Len(events) : events[i].message = "succeeded"


\* C29: no overcount.  activeThreats never exceeds the number of active
\* attacks that are not blocked; with an empty list of active attacks
\* activeThreats is 0 and every device is secure.
C29_NoOvercount ==
  /\ stats.activeThreats <= UnblockedCount(activeAttacks)
  /\ activeAttacks = <<>> => stats.activeThreats = 0 /\ AllSecure(devices)

\* Two attacks got through and both were stopped, one after the other.
C29_Witness ==
  /\ lastOp.op = "stopAttack"
  /\ lastOp.found
  /\ ~lastOp.wasBlocked
  /\ ~protocolEnabled
  /\ activeAttacks = <<>>
  /\ stats.totalAttacks = 2
  /\ stats.blockedAttacks = 0
  /\ Cardinality({i \in 1..Len(events) : events[i].message = "succeeded"}) = 2


\* The handles of the pending timeouts of a loop.
LoopHandles(table, loop) == {t.handle : t \in LoopTimers(table, loop)}

\* C30: single chain.  While a loop is mounted exactly one callback of it is
\* pending, the one its effect holds the handle of, and otherwise none; a
\* toggle of the protocol cancels the pending callback of each mounted loop
\* and schedules one new callback; a firing of the engine's timer removes
\* the fired callback and creates exactly one attack.
C30_SingleChain ==
  [][ /\ \A loop \in {"engine", "map"} :
           /\ LoopHandles(timers', loop) =
                 (IF loopPhase'[loop] = "active" THEN {timeoutId'[loop]} ELSE {})
           /\ Cardinality(LoopTimers(timers', loop)) <= 1
           /\ (lastOp'.op = "toggleProtocol" \/ CallbackStep(loop)) =>
                 LoopHandles(timers', loop) \cap LoopHandles(timers, loop) = {}
      /\ CallbackStep("engine") =>
           /\ Len(activeAttacks') = Len(activeAttacks) + 1
           /\ stats'.totalAttacks = stats.totalAttacks + 1
      ]_vars

\* The engine's timer fired after a toggle had re-created both loops; each
\* loop has its one callback pending.
C30_Witness ==
  /\ lastOp.op = "auto"
  /\ loopPhase["engine"] = "active"
  /\ loopPhase["map"] = "active"
  /\ \E i \in 1..Len(events) : events[i].attackType = "system"
  /\ Len(activeAttacks) = 1
  /\ Cardinality(timers) = 2

====
